---------------------------- MODULE Spec2Model ----------------------------
(***************************************************************************)
(* Model of zcash_tx_decryptor (src/zcash_tx_decryptor/src/simple_main.rs, *)
(* models.rs): main's intake pipeline, the NU6.1 branch-id patch, and      *)
(* build_transaction_details' aggregation of the decrypted outputs.        *)
(*                                                                         *)
(* Strings are tuples of one-character strings, bytes are 0..255.          *)
(* u64/i64 are modelled with Width bits instead of 64 (TLC integers are    *)
(* 32-bit); U64_MAX and I64_MAX are derived from Width.  The f64 *_zec     *)
(* fields and the timestamp of TransactionDetails are left out.            *)
(***************************************************************************)
EXTENDS Integers, Sequences, FiniteSets, TLC

VARIABLES
    args,           \* Args: txid, ufvk, raw_tx, height, format
    pc,             \* position in main / build_transaction_details
    network,        \* Network chosen from the UFVK prefix
    tx_bytes,       \* the decoded (and possibly patched) transaction bytes
    tx_size_bytes,  \* tx_bytes.len() taken before patching
    decrypted,      \* result of decrypt_transaction: sapling and orchard lists
    n,              \* number of outputs the current for-loop has consumed
    txid_short,     \* shortened id built at entry of build_transaction_details
    incoming_zats,  \* u64 accumulators
    change_zats,
    outgoing_zats,
    outputs,        \* Vec<OutputInfo>
    details,        \* <<>> or <<TransactionDetails>> (the Ok value)
    err,            \* "none" or the error main returned
    stdout,         \* "none", "json" or "pretty": what has been printed
    steps           \* the stages of main that ran, in order, with their outcome

vars == <<args, pc, network, tx_bytes, tx_size_bytes, decrypted, n, txid_short,
          incoming_zats, change_zats, outgoing_zats, outputs, details, err,
          stdout, steps>>

---------------------------------------------------------------------------
(* Bounds of the model *)

\* bit width standing for the 64 bits of u64 / i64
Width == 8
\* largest number of decrypted outputs (sapling and orchard together)
MaxOutputs == 3
\* length of the memo array standing for the 512 bytes of MemoBytes
MemoLen == 2

(* Program constants *)

MainNu61Height == 3146400
TestNu61Height == 2976640
TxidLen == 64
ShortLen == 16
HeaderLen == 12

U64_MAX == 2^Width - 1
I64_MAX == 2^(Width - 1) - 1

---------------------------------------------------------------------------
(* Text helpers *)

LowerHex == <<"0","1","2","3","4","5","6","7","8","9","a","b","c","d","e","f">>
UpperHex == <<"0","1","2","3","4","5","6","7","8","9","A","B","C","D","E","F">>

\* value of a hex digit, -1 when the character is no hex digit
HexVal(c) ==
    IF \E i \in 1..16 : LowerHex[i] = c
    THEN (CHOOSE i \in 1..16 : LowerHex[i] = c) - 1
    ELSE IF \E i \in 1..16 : UpperHex[i] = c
    THEN (CHOOSE i \in 1..16 : UpperHex[i] = c) - 1
    ELSE -1

\* hex::decode: odd length or a non-hex character is an error
HexDecode(s) ==
    IF Len(s) % 2 # 0 \/ \E i \in 1..Len(s) : HexVal(s[i]) = -1
    THEN [ok |-> FALSE, bytes |-> <<>>]
    ELSE [ok |-> TRUE,
          bytes |-> [i \in 1..(Len(s) \div 2) |->
                        16 * HexVal(s[2*i - 1]) + HexVal(s[2*i])]]

\* lower-case hex text of a byte sequence (used to write the raw_tx inputs)
HexOf(b) ==
    [i \in 1..(2 * Len(b)) |->
        IF i % 2 = 1 THEN LowerHex[(b[(i + 1) \div 2] \div 16) + 1]
                     ELSE LowerHex[(b[i \div 2] % 16) + 1]]

IsSpace(c) == c \in {" ", "\n", "\t"}

\* str::trim
RECURSIVE TrimStart(_)
TrimStart(s) ==
    IF Len(s) > 0 /\ IsSpace(Head(s)) THEN TrimStart(Tail(s)) ELSE s

RECURSIVE TrimEnd(_)
TrimEnd(s) ==
    IF Len(s) > 0 /\ IsSpace(s[Len(s)]) THEN TrimEnd(SubSeq(s, 1, Len(s) - 1)) ELSE s

Trim(s) == TrimEnd(TrimStart(s))

\* str::starts_with
StartsWith(s, p) == Len(s) >= Len(p) /\ SubSeq(s, 1, Len(p)) = p

UviewTest1 == <<"u","v","i","e","w","t","e","s","t","1">>
Uview1 == <<"u","v","i","e","w","1">>

---------------------------------------------------------------------------
(* Inputs *)

\* a txid of the given length: hex digits in a rotating pattern, with the
\* character at position bad (if any) replaced by a non-hex one
MkTxid(len, shift, bad) ==
    [i \in 1..len |->
        IF i = bad THEN "g" ELSE LowerHex[((i * shift + (i \div 16)) % 16) + 1]]

TxidInputs ==
    { MkTxid(len, shift, 0) :
        len \in {0, 15, 16, 31, 32, 63, 64, 65}, shift \in {1, 3} }
    \cup { MkTxid(TxidLen, 1, 40), MkTxid(31, 1, 5) }

UfvkInputs ==
    { UviewTest1 \o <<"q","x">>, Uview1 \o <<"q","x">>,
      <<"z","x","v","i","e","w","s","1">>, <<>> }

Heights ==
    { 0, 2500000, TestNu61Height - 1, TestNu61Height,
      MainNu61Height - 1, MainNu61Height, 4000000 }

Formats == { <<"j","s","o","n">>, <<"p","r","e","t","t","y">>, <<"x","m","l">> }

\* version group id of a v5 transaction, little-endian
V5GroupId == <<10, 39, 167, 38>>

\* a transaction prefix of the given length with byte 0 = b0, byte 3 = b3 and
\* bytes 8..11 = id
MkBytes(len, b0, b3, id) ==
    [i \in 1..len |->
        IF i = 1 THEN b0
        ELSE IF i = 4 THEN b3
        ELSE IF i \in 5..8 THEN V5GroupId[i - 4]
        ELSE IF i \in 9..12 THEN id[i - 8]
        ELSE 0]

Nu61Id == <<240, 77, 236, 77>>
Nu6Id == <<85, 16, 231, 200>>

\* every mix of the NU6.1 and the NU6 identifier bytes
IdInputs ==
    { <<a, b, c, d>> : a \in {240, 85}, b \in {77, 16}, c \in {236, 231}, d \in {77, 200} }

ByteInputs ==
    { MkBytes(len, b0, b3, id) :
        len \in {1, 3, 11, 12, 13}, b0 \in {5, 4}, b3 \in {128, 0}, id \in IdInputs }

RawTxInputs ==
    { HexOf(MkBytes(13, 5, 128, Nu61Id)),
      <<" ">> \o HexOf(MkBytes(12, 5, 128, Nu61Id)) \o <<"\n">>,
      HexOf(MkBytes(13, 5, 128, Nu6Id)),
      HexOf(MkBytes(2, 4, 0, Nu6Id)),
      <<>>,
      <<" ">>,
      <<"0","5","0">>,
      <<"z","z">> }

ArgsInputs ==
    [txid : TxidInputs, ufvk : UfvkInputs, raw_tx : RawTxInputs,
     height : {2500000, TestNu61Height, MainNu61Height}, format : Formats]

---------------------------------------------------------------------------
(* main *)

Fail(e) ==
    /\ pc' = "error"
    /\ err' = e

Ran(stage, ok) == steps' = Append(steps, <<stage, ok>>)

\* a length check that only rejects the empty id
TxidNonEmpty(t) == Len(t) > 0

TxidLengthOk(t) == Len(t) = TxidLen

\* lines 52-56
ValidateTxid ==
    /\ pc = "validate_txid"
    /\ IF ~TxidLengthOk(args.txid)
       THEN Fail("TXID must be 64 hex characters") /\ Ran("txid", FALSE)
       ELSE IF ~HexDecode(args.txid).ok
       THEN Fail("TXID is not valid hex") /\ Ran("txid", FALSE)
       ELSE pc' = "determine_network" /\ err' = err /\ Ran("txid", TRUE)
    /\ UNCHANGED <<args, network, tx_bytes, tx_size_bytes, decrypted, n, txid_short,
                   incoming_zats, change_zats, outgoing_zats, outputs, details, stdout>>

\* lines 58-67
DetermineNetwork ==
    /\ pc = "determine_network"
    /\ IF StartsWith(args.ufvk, UviewTest1)
       THEN network' = "TestNetwork" /\ pc' = "decode_ufvk" /\ err' = err
            /\ Ran("network", TRUE)
       ELSE IF StartsWith(args.ufvk, Uview1)
       THEN network' = "MainNetwork" /\ pc' = "decode_ufvk" /\ err' = err
            /\ Ran("network", TRUE)
       ELSE network' = network /\ Fail("Invalid UFVK format") /\ Ran("network", FALSE)
    /\ UNCHANGED <<args, tx_bytes, tx_size_bytes, decrypted, n, txid_short,
                   incoming_zats, change_zats, outgoing_zats, outputs, details, stdout>>

\* lines 69-71: UnifiedFullViewingKey::decode is external, it accepts or rejects
DecodeUfvk ==
    /\ pc = "decode_ufvk"
    /\ \E ok \in BOOLEAN :
          IF ok THEN pc' = "decode_raw_tx" /\ err' = err /\ Ran("ufvk", TRUE)
          ELSE Fail("Failed to decode UFVK") /\ Ran("ufvk", FALSE)
    /\ UNCHANGED <<args, network, tx_bytes, tx_size_bytes, decrypted, n, txid_short,
                   incoming_zats, change_zats, outgoing_zats, outputs, details, stdout>>

\* lines 73-79
DecodeRawTx ==
    /\ pc = "decode_raw_tx"
    /\ LET d == HexDecode(Trim(args.raw_tx)) IN
       IF ~d.ok
       THEN /\ Fail("Raw transaction hex is invalid") /\ Ran("raw_tx", FALSE)
            /\ UNCHANGED <<tx_bytes, tx_size_bytes>>
       ELSE IF Len(d.bytes) = 0
       THEN /\ Fail("Transaction data is empty") /\ Ran("raw_tx", FALSE)
            /\ tx_bytes' = d.bytes
            /\ UNCHANGED tx_size_bytes
       ELSE /\ pc' = "resolve" /\ err' = err /\ Ran("raw_tx", TRUE)
            /\ tx_bytes' = d.bytes
            /\ tx_size_bytes' = Len(d.bytes)
    /\ UNCHANGED <<args, network, decrypted, n, txid_short,
                   incoming_zats, change_zats, outgoing_zats, outputs, details, stdout>>

\* lines 88-91
IsNu61Range(net, h) ==
    IF net = "MainNetwork" THEN h >= MainNu61Height ELSE h >= TestNu61Height

\* tx_bytes[i] (0-based) is a panic when i is out of bounds
InBounds(b, i) == i < Len(b)

\* the patch with the NU6 identifier written big-endian
PatchBigEndian(is_nu61_range, b) ==
    IF is_nu61_range /\ Len(b) >= HeaderLen /\ b[1] = 5 /\ b[4] = 128
       /\ <<b[9], b[10], b[11], b[12]>> = <<240, 77, 236, 77>>
    THEN [panic |-> FALSE,
          bytes |-> [b EXCEPT ![9] = 200, ![10] = 231, ![11] = 16, ![12] = 85]]
    ELSE [panic |-> FALSE, bytes |-> b]

\* the patch without the test of the overwintered flag in byte 3
PatchNoFlagCheck(is_nu61_range, b) ==
    IF is_nu61_range /\ Len(b) >= HeaderLen /\ b[1] = 5
       /\ <<b[9], b[10], b[11], b[12]>> = <<240, 77, 236, 77>>
    THEN [panic |-> FALSE,
          bytes |-> [b EXCEPT ![9] = 85, ![10] = 16, ![11] = 231, ![12] = 200]]
    ELSE [panic |-> FALSE, bytes |-> b]

\* lines 93-113: the bytes after the patch; panic is TRUE when an index
\* expression was evaluated out of bounds
PatchBranchId(is_nu61_range, b) ==
    IF ~is_nu61_range THEN [panic |-> FALSE, bytes |-> b]
    ELSE IF ~(Len(b) >= HeaderLen) THEN [panic |-> FALSE, bytes |-> b]
    ELSE IF ~InBounds(b, 0) THEN [panic |-> TRUE, bytes |-> b]
    ELSE IF b[1] # 5 THEN [panic |-> FALSE, bytes |-> b]
    ELSE IF ~InBounds(b, 3) THEN [panic |-> TRUE, bytes |-> b]
    ELSE IF b[4] # 128 THEN [panic |-> FALSE, bytes |-> b]
    ELSE IF ~InBounds(b, 8) THEN [panic |-> TRUE, bytes |-> b]
    ELSE IF b[9] # 240 THEN [panic |-> FALSE, bytes |-> b]
    ELSE IF ~InBounds(b, 9) THEN [panic |-> TRUE, bytes |-> b]
    ELSE IF b[10] # 77 THEN [panic |-> FALSE, bytes |-> b]
    ELSE IF ~InBounds(b, 10) THEN [panic |-> TRUE, bytes |-> b]
    ELSE IF b[11] # 236 THEN [panic |-> FALSE, bytes |-> b]
    ELSE IF ~InBounds(b, 11) THEN [panic |-> TRUE, bytes |-> b]
    ELSE IF b[12] # 77 THEN [panic |-> FALSE, bytes |-> b]
    ELSE [panic |-> FALSE,
          bytes |-> [b EXCEPT ![9] = 85, ![10] = 16, ![11] = 231, ![12] = 200]]

\* lines 81-113
ResolveBranch ==
    /\ pc = "resolve"
    /\ LET r == PatchBranchId(IsNu61Range(network, args.height), tx_bytes) IN
       IF r.panic
       THEN pc' = "panic" /\ err' = "index out of bounds" /\ Ran("resolve", FALSE)
            /\ UNCHANGED tx_bytes
       ELSE pc' = "parse" /\ err' = err /\ Ran("resolve", TRUE)
            /\ tx_bytes' = r.bytes
    /\ UNCHANGED <<args, network, tx_size_bytes, decrypted, n, txid_short,
                   incoming_zats, change_zats, outgoing_zats, outputs, details, stdout>>

\* a parse step that carries on after a rejected transaction
ParseTxIgnoringFailure ==
    /\ pc = "parse"
    /\ \E ok \in BOOLEAN : pc' = "decrypt" /\ err' = err /\ Ran("parse", ok)
    /\ UNCHANGED <<args, network, tx_bytes, tx_size_bytes, decrypted, n, txid_short,
                   incoming_zats, change_zats, outgoing_zats, outputs, details, stdout>>

\* lines 115-117: Transaction::read is external, it accepts or rejects
ParseTx ==
    /\ pc = "parse"
    /\ \E ok \in BOOLEAN :
          IF ok THEN pc' = "decrypt" /\ err' = err /\ Ran("parse", TRUE)
          ELSE Fail("Failed to parse transaction from raw hex") /\ Ran("parse", FALSE)
    /\ UNCHANGED <<args, network, tx_bytes, tx_size_bytes, decrypted, n, txid_short,
                   incoming_zats, change_zats, outgoing_zats, outputs, details, stdout>>


---------------------------------------------------------------------------
(* decrypt_transaction *)

TransferTypes == {"Incoming", "WalletInternal", "Outgoing"}

\* note values around the i64 and u64 limits
Values == {1, I64_MAX, I64_MAX + 1}

\* MemoBytes::empty(): the "no memo" marker 0xF6 followed by zero padding
NoMemo == [i \in 1..MemoLen |-> IF i = 1 THEN 246 ELSE 0]

\* a memo array that was never written
ZeroMemo == [i \in 1..MemoLen |-> 0]

\* memo arrays over NUL, the letter A and the byte 0xF6
MemoInputs == [1..MemoLen -> {0, 65, 246}]

\* The lists decrypt_transaction returns for the single account of main: each
\* protocol's outputs are found by walking the bundle in ascending output
\* index, so each list has strictly ascending indices.  f gives the value,
\* classification and memo of the m outputs, the first s of them Sapling.
OutputLists(f, m, s, gap) ==
    [sapling |-> [k \in 1..s |->
                    [index |-> k * gap - 1, note_value |-> f[k][1],
                     transfer_type |-> f[k][2], memo |-> f[k][3]]],
     orchard |-> [k \in 1..(m - s) |->
                    [index |-> k * gap - 1, note_value |-> f[s + k][1],
                     transfer_type |-> f[s + k][2], memo |-> f[s + k][3]]]]

\* d is a result of at most maxn outputs over the values V, classifications T
\* and memos M
IsDecrypted(d, maxn, V, T, M) ==
    \E m \in 0..maxn :
       \E f \in [1..m -> V \X T \X M], s \in 0..m, gap \in {1, 2} :
          d = OutputLists(f, m, s, gap)

\* line 129
Decrypt ==
    /\ pc = "decrypt"
    /\ IsDecrypted(decrypted', 1, Values, TransferTypes, {NoMemo})
    /\ pc' = "build"
    /\ Ran("decrypt", TRUE)
    /\ UNCHANGED <<args, network, tx_bytes, tx_size_bytes, n, txid_short,
                   incoming_zats, change_zats, outgoing_zats, outputs, details,
                   err, stdout>>

---------------------------------------------------------------------------
(* build_transaction_details *)

\* line 156: slicing past the end of the string is a panic
ShortTxid(t) ==
    IF Len(t) < ShortLen THEN [panic |-> TRUE, text |-> <<>>]
    ELSE [panic |-> FALSE,
          text |-> SubSeq(t, 1, ShortLen) \o <<".", ".", ".">>
                   \o SubSeq(t, Len(t) - ShortLen + 1, Len(t))]

\* where the two for-loops continue after the sapling loop consumed k outputs
AfterSapling(k) ==
    IF k < Len(decrypted.sapling) THEN "sapling"
    ELSE IF Len(decrypted.orchard) > 0 THEN "orchard"
    ELSE "totals"

\* lines 156-162
BuildStart ==
    /\ pc = "build"
    /\ LET s == ShortTxid(args.txid) IN
       IF s.panic
       THEN /\ pc' = "panic" /\ err' = "byte index out of bounds"
            /\ Ran("build", FALSE)
            /\ UNCHANGED txid_short
       ELSE /\ pc' = AfterSapling(0) /\ err' = err
            /\ UNCHANGED steps
            /\ txid_short' = s.text
    /\ outputs' = <<>>
    /\ incoming_zats' = 0
    /\ change_zats' = 0
    /\ outgoing_zats' = 0
    /\ n' = 0
    /\ UNCHANGED <<args, network, tx_bytes, tx_size_bytes, decrypted, details, stdout>>

\* lines 165-171
classify_transfer(t) ==
    IF t = "Incoming" THEN <<"Incoming", "received">>
    ELSE IF t = "WalletInternal" THEN <<"WalletInternal", "change">>
    ELSE <<"Outgoing", "sent">>

\* u64::wrapping_add
WrappingAdd(a, b) == (a + b) % (2^Width)

\* u64::saturating_add
SaturatingAdd(a, b) == IF a + b > U64_MAX THEN U64_MAX ELSE a + b

\* an accumulation that counts WalletInternal outputs as incoming
AccumulateInternalAsIncoming(t, value, acc) ==
    IF t \in {"Incoming", "WalletInternal"}
    THEN [acc EXCEPT !.incoming = IF acc.incoming + value > U64_MAX THEN U64_MAX
                                  ELSE acc.incoming + value]
    ELSE [acc EXCEPT !.outgoing = IF acc.outgoing + value > U64_MAX THEN U64_MAX
                                  ELSE acc.outgoing + value]

\* lines 179-183 and 201-205
Accumulate(t, value, acc) ==
    IF t = "Incoming"
    THEN [acc EXCEPT !.incoming = SaturatingAdd(acc.incoming, value)]
    ELSE IF t = "WalletInternal"
    THEN [acc EXCEPT !.change = SaturatingAdd(acc.change, value)]
    ELSE [acc EXCEPT !.outgoing = SaturatingAdd(acc.outgoing, value)]

\* `value as i64`: two's complement reinterpretation
AsI64(v) == IF v > I64_MAX THEN v - 2^Width ELSE v

\* MemoBytes::as_slice: the bytes without the trailing zero padding
RECURSIVE as_slice(_)
as_slice(m) ==
    IF Len(m) > 0 /\ m[Len(m)] = 0 THEN as_slice(SubSeq(m, 1, Len(m) - 1)) ELSE m

\* the Unicode replacement character U+FFFD
Replacement == 65533

\* String::from_utf8_lossy on bytes that hold no multi-byte sequence: an ASCII
\* byte is its character, any other byte is invalid and becomes U+FFFD
from_utf8_lossy(b) ==
    [i \in 1..Len(b) |-> IF b[i] < 128 THEN b[i] ELSE Replacement]

\* lines 175-192 and 197-214: the OutputInfo pushed for one output
OutputInfo(protocol, out) ==
    [protocol |-> protocol,
     amount_zats |-> AsI64(out.note_value),
     index |-> out.index,
     transfer_type |-> classify_transfer(out.transfer_type)[1],
     direction |-> classify_transfer(out.transfer_type)[2],
     memo |-> from_utf8_lossy(as_slice(out.memo))]

\* Vec::insert(0, x)
PushFront(vec, x) == <<x>> \o vec

\* Vec::push (lines 185 and 207)
Push(vec, x) == Append(vec, x)

\* one iteration of either loop: the three accumulators after the output
LoopBody(out) ==
    LET acc == Accumulate(out.transfer_type, out.note_value,
                          [incoming |-> incoming_zats, change |-> change_zats,
                           outgoing |-> outgoing_zats])
    IN /\ incoming_zats' = acc.incoming
       /\ change_zats' = acc.change
       /\ outgoing_zats' = acc.outgoing

\* lines 173-193, one iteration
SaplingStep ==
    /\ pc = "sapling"
    /\ n < Len(decrypted.sapling)
    /\ LET out == decrypted.sapling[n + 1] IN
          /\ LoopBody(out)
          /\ outputs' = Push(outputs, OutputInfo("Sapling", out))
    /\ pc' = AfterSapling(n + 1)
    /\ n' = IF n + 1 < Len(decrypted.sapling) THEN n + 1 ELSE 0
    /\ UNCHANGED <<args, network, tx_bytes, tx_size_bytes, decrypted, txid_short,
                   details, err, stdout, steps>>

\* lines 195-215, one iteration
OrchardStep ==
    /\ pc = "orchard"
    /\ n < Len(decrypted.orchard)
    /\ LET out == decrypted.orchard[n + 1] IN
          /\ LoopBody(out)
          /\ outputs' = Push(outputs, OutputInfo("Orchard", out))
    /\ pc' = IF n + 1 < Len(decrypted.orchard) THEN "orchard" ELSE "totals"
    /\ n' = IF n + 1 < Len(decrypted.orchard) THEN n + 1 ELSE 0
    /\ UNCHANGED <<args, network, tx_bytes, tx_size_bytes, decrypted, txid_short,
                   details, err, stdout, steps>>

\* an unchecked `as i64` in place of the checked conversion
CastUnchecked(v) == [ok |-> TRUE, val |-> IF v > I64_MAX THEN v - 2^Width ELSE v]

\* i64::try_from(u64)
TryFromU64(v) == [ok |-> v <= I64_MAX, val |-> v]

\* the conversions without the check of the outgoing total
ConvertTotalsNoOutgoingCheck(inc, chg, outg) ==
    IF inc + chg > I64_MAX
    THEN [ok |-> FALSE, err |-> "Total received amount exceeds i64 range"]
    ELSE [ok |-> TRUE, err |-> "none",
          amount_zats |-> inc + chg,
          incoming_zats |-> inc,
          change_zats |-> chg,
          outgoing_zats |-> IF outg > I64_MAX THEN outg - 2^Width ELSE outg]

\* lines 217-229: the checked conversions, in the order the code makes them
ConvertTotals(inc, chg, outg) ==
    LET total_received_zats == SaturatingAdd(inc, chg) IN
    IF ~TryFromU64(total_received_zats).ok
    THEN [ok |-> FALSE, err |-> "Total received amount exceeds i64 range"]
    ELSE IF ~TryFromU64(inc).ok
    THEN [ok |-> FALSE, err |-> "Incoming amount exceeds i64 range"]
    ELSE IF ~TryFromU64(chg).ok
    THEN [ok |-> FALSE, err |-> "Change amount exceeds i64 range"]
    ELSE IF ~TryFromU64(outg).ok
    THEN [ok |-> FALSE, err |-> "Outgoing amount exceeds i64 range"]
    ELSE [ok |-> TRUE, err |-> "none",
          amount_zats |-> TryFromU64(total_received_zats).val,
          incoming_zats |-> TryFromU64(inc).val,
          change_zats |-> TryFromU64(chg).val,
          outgoing_zats |-> TryFromU64(outg).val]

\* lines 217-253
BuildFinish ==
    /\ pc = "totals"
    /\ LET c == ConvertTotals(incoming_zats, change_zats, outgoing_zats) IN
       IF ~c.ok
       THEN Fail(c.err) /\ Ran("build", FALSE) /\ UNCHANGED details
       ELSE /\ pc' = "output" /\ err' = err /\ Ran("build", TRUE)
            /\ details' = << [transaction_id |-> args.txid,
                              transaction_hash |-> txid_short,
                              amount_zats |-> c.amount_zats,
                              incoming_zats |-> c.incoming_zats,
                              change_zats |-> c.change_zats,
                              outgoing_zats |-> c.outgoing_zats,
                              fee_zats |-> 0,
                              block_height |-> args.height,
                              outputs |-> outputs,
                              tx_size_bytes |-> tx_size_bytes] >>
    /\ UNCHANGED <<args, network, tx_bytes, tx_size_bytes, decrypted, n, txid_short,
                   incoming_zats, change_zats, outgoing_zats, outputs, stdout>>

\* lines 134-145
Output ==
    /\ pc = "output"
    /\ IF args.format = <<"j","s","o","n">>
       THEN stdout' = "json" /\ pc' = "done" /\ err' = err /\ Ran("output", TRUE)
       ELSE IF args.format = <<"p","r","e","t","t","y">>
       THEN stdout' = "pretty" /\ pc' = "done" /\ err' = err /\ Ran("output", TRUE)
       ELSE stdout' = stdout /\ Fail("Unknown format") /\ Ran("output", FALSE)
    /\ UNCHANGED <<args, network, tx_bytes, tx_size_bytes, decrypted, n, txid_short,
                   incoming_zats, change_zats, outgoing_zats, outputs, details>>

---------------------------------------------------------------------------
(* Specifications *)

Fresh ==
    /\ network = "unset"
    /\ tx_bytes = <<>>
    /\ tx_size_bytes = 0
    /\ decrypted = [sapling |-> <<>>, orchard |-> <<>>]
    /\ n = 0
    /\ txid_short = <<>>
    /\ incoming_zats = 0
    /\ change_zats = 0
    /\ outgoing_zats = 0
    /\ outputs = <<>>
    /\ details = <<>>
    /\ err = "none"
    /\ stdout = "none"

\* the whole run of main from its arguments
Init ==
    /\ args \in ArgsInputs
    /\ pc = "validate_txid"
    /\ steps = <<>>
    /\ Fresh

Next ==
    \/ ValidateTxid
    \/ DetermineNetwork
    \/ DecodeUfvk
    \/ DecodeRawTx
    \/ ResolveBranch
    \/ ParseTx
    \/ Decrypt
    \/ BuildStart
    \/ SaplingStep
    \/ OrchardStep
    \/ BuildFinish
    \/ Output

Spec == Init /\ [][Next]_vars


\* a well-formed txid and the arguments of a run that got past the intake
ValidTxid == MkTxid(TxidLen, 1, 0)

UfvkOf(net) ==
    IF net = "TestNetwork" THEN UviewTest1 \o <<"q","x">> ELSE Uview1 \o <<"q","x">>

IntakeSteps ==
    << <<"txid", TRUE>>, <<"network", TRUE>>, <<"ufvk", TRUE>>, <<"raw_tx", TRUE>> >>

\* main at line 81, for every network, height and decoded transaction prefix
InitResolve ==
    /\ \E net \in {"MainNetwork", "TestNetwork"}, h \in Heights, b \in ByteInputs :
          /\ network = net
          /\ args = [txid |-> ValidTxid, ufvk |-> UfvkOf(net), raw_tx |-> HexOf(b),
                     height |-> h, format |-> <<"j","s","o","n">>]
          /\ tx_bytes = b
          /\ tx_size_bytes = Len(b)
    /\ pc = "resolve"
    /\ steps = IntakeSteps
    /\ decrypted = [sapling |-> <<>>, orchard |-> <<>>]
    /\ n = 0
    /\ txid_short = <<>>
    /\ incoming_zats = 0
    /\ change_zats = 0
    /\ outgoing_zats = 0
    /\ outputs = <<>>
    /\ details = <<>>
    /\ err = "none"
    /\ stdout = "none"

NextResolve == ResolveBranch

SpecResolve == InitResolve /\ [][NextResolve]_vars

\* main at line 132, the call of build_transaction_details on the given lists
AtBuild(maxn, V, T, M) ==
    /\ IsDecrypted(decrypted, maxn, V, T, M)
    /\ network = "MainNetwork"
    /\ args = [txid |-> ValidTxid, ufvk |-> UfvkOf("MainNetwork"),
               raw_tx |-> HexOf(MkBytes(13, 5, 128, Nu6Id)),
               height |-> 2500000, format |-> <<"j","s","o","n">>]
    /\ tx_bytes = MkBytes(13, 5, 128, Nu6Id)
    /\ tx_size_bytes = 13
    /\ pc = "build"
    /\ steps = IntakeSteps \o << <<"resolve", TRUE>>, <<"parse", TRUE>>,
                                 <<"decrypt", TRUE>> >>
    /\ n = 0
    /\ txid_short = <<>>
    /\ incoming_zats = 0
    /\ change_zats = 0
    /\ outgoing_zats = 0
    /\ outputs = <<>>
    /\ details = <<>>
    /\ err = "none"
    /\ stdout = "none"

NextBuild ==
    \/ BuildStart
    \/ SaplingStep
    \/ OrchardStep
    \/ BuildFinish

\* build_transaction_details over every value and classification
InitBuild == AtBuild(MaxOutputs, Values, TransferTypes, {NoMemo})

SpecBuild == InitBuild /\ [][NextBuild]_vars

\* build_transaction_details over every memo array
InitMemo == AtBuild(2, {1}, {"Incoming"}, MemoInputs)

SpecMemo == InitMemo /\ [][NextBuild]_vars


---------------------------------------------------------------------------
(* Properties *)

\* the bytes main decoded from the raw_tx argument, before any patch
InputBytes == HexDecode(Trim(args.raw_tx)).bytes

\* the height lies in the network's collision window
InWindow ==
    \/ network = "MainNetwork" /\ args.height >= 3146400
    \/ network = "TestNetwork" /\ args.height >= 2976640

\* the input carries the version-5 header and the NU6.1 identifier f0 4d ec 4d
MatchesPattern(b) ==
    /\ Len(b) >= 12
    /\ b[1] = 5
    /\ b[4] = 128
    /\ <<b[9], b[10], b[11], b[12]>> = <<240, 77, 236, 77>>

\* the resolver has run
Resolved == pc \notin {"validate_txid", "determine_network", "decode_ufvk",
                       "decode_raw_tx", "resolve"}

\* C1: inside the collision window, an input of at least 12 bytes with byte 0
\* = 0x05, byte 3 = 0x80 and bytes 8..11 = f0 4d ec 4d reaches the parser with
\* the same length, the same bytes outside 8..11, and 55 10 e7 c8 at 8..11.
C1_PatchedExactly ==
    (pc \in {"parse", "panic"} /\ InWindow /\ MatchesPattern(InputBytes)) =>
        /\ pc = "parse"
        /\ Len(tx_bytes) = Len(InputBytes)
        /\ \A i \in 1..Len(InputBytes) :
              i \notin 9..12 => tx_bytes[i] = InputBytes[i]
        /\ <<tx_bytes[9], tx_bytes[10], tx_bytes[11], tx_bytes[12]>>
              = <<85, 16, 231, 200>>

C1_Witness ==
    /\ pc = "parse"
    /\ InWindow
    /\ MatchesPattern(InputBytes)
    /\ Len(InputBytes) > 12
    /\ tx_bytes # InputBytes

\* C2: outside the window, or for an input that is too short or differs from
\* the pattern in byte 0, byte 3 or any of bytes 8..11, the parser gets the
\* input bytes unchanged and the checks raise no error.
C2_NeverOverFires ==
    (pc \in {"parse", "panic"} /\ Len(InputBytes) > 0
        /\ ~(InWindow /\ MatchesPattern(InputBytes))) =>
        /\ pc = "parse"
        /\ err = "none"
        /\ tx_bytes = InputBytes

\* inside the window, a v5 header whose identifier differs from the NU6.1 one
\* in its last byte only
C2_Witness ==
    /\ pc = "parse"
    /\ InWindow
    /\ Len(InputBytes) >= 12
    /\ InputBytes[1] = 5
    /\ InputBytes[4] = 128
    /\ <<InputBytes[9], InputBytes[10], InputBytes[11]>> = <<240, 77, 236>>
    /\ InputBytes[12] # 77
    /\ tx_bytes = InputBytes

---------------------------------------------------------------------------

\* the decrypted outputs in the order the two loops visit them
AllDecrypted == decrypted.sapling \o decrypted.orchard

\* the outputs the loops have consumed so far
Consumed == SubSeq(AllDecrypted, 1, Len(outputs))

\* exact (unbounded) sum of the values of the outputs of one classification
RECURSIVE SumOf(_, _)
SumOf(outs, t) ==
    IF Len(outs) = 0 THEN 0
    ELSE (IF Head(outs).transfer_type = t THEN Head(outs).note_value ELSE 0)
         + SumOf(Tail(outs), t)

\* build_transaction_details has returned
Returned == pc \in {"output", "done", "error", "panic"}

OverflowErrors ==
    { "Total received amount exceeds i64 range", "Incoming amount exceeds i64 range",
      "Change amount exceeds i64 range", "Outgoing amount exceeds i64 range" }

\* C3: build_transaction_details returns either a report whose amount_zats is
\* exactly incoming_zats + change_zats (the exact sums of the Incoming and
\* WalletInternal values), or an overflow error and no report.
C3_TotalReceivedChecked ==
    Returned =>
        \/ /\ Len(details) = 1
           /\ details[1].amount_zats
                 = details[1].incoming_zats + details[1].change_zats
           /\ details[1].amount_zats
                 = SumOf(AllDecrypted, "Incoming") + SumOf(AllDecrypted, "WalletInternal")
        \/ /\ Len(details) = 0
           /\ pc = "error"
           /\ err \in OverflowErrors

\* incoming and change each fit the signed field, their sum does not
C3_Witness ==
    /\ pc = "error"
    /\ Len(details) = 0
    /\ incoming_zats > 0
    /\ incoming_zats <= I64_MAX
    /\ change_zats > 0
    /\ change_zats <= I64_MAX
    /\ incoming_zats + change_zats > I64_MAX

\* C4: while the exact per-classification sums fit the accumulator, each
\* accumulator, and each total of a returned report, is the sum of the values
\* of exactly the outputs of its classification.
C4_TotalsPerClassification ==
    /\ SumOf(Consumed, "Incoming") <= U64_MAX =>
          incoming_zats = SumOf(Consumed, "Incoming")
    /\ SumOf(Consumed, "WalletInternal") <= U64_MAX =>
          change_zats = SumOf(Consumed, "WalletInternal")
    /\ SumOf(Consumed, "Outgoing") <= U64_MAX =>
          outgoing_zats = SumOf(Consumed, "Outgoing")
    /\ Len(details) = 1 =>
          /\ details[1].incoming_zats = SumOf(AllDecrypted, "Incoming")
          /\ details[1].change_zats = SumOf(AllDecrypted, "WalletInternal")
          /\ details[1].outgoing_zats = SumOf(AllDecrypted, "Outgoing")

C4_Witness ==
    /\ Len(details) = 1
    /\ details[1].incoming_zats > 0
    /\ details[1].change_zats > 0
    /\ details[1].outgoing_zats > 0

\* C5: the report holds one record per decrypted output, the Sapling records
\* first and the Orchard records after them, each group in the order and with
\* the indices of its list, which ascend.
C5_ProtocolGroupedOrder ==
    Len(details) = 1 =>
        LET recs == details[1].outputs
            ns == Len(decrypted.sapling)
        IN /\ Len(recs) = ns + Len(decrypted.orchard)
           /\ \A k \in 1..Len(recs) :
                 /\ recs[k].protocol = IF k <= ns THEN "Sapling" ELSE "Orchard"
                 /\ recs[k].index = AllDecrypted[k].index
                 /\ recs[k].transfer_type = AllDecrypted[k].transfer_type
           /\ \A j, k \in 1..Len(recs) :
                 j < k =>
                    /\ ~(recs[j].protocol = "Orchard" /\ recs[k].protocol = "Sapling")
                    /\ recs[j].protocol = recs[k].protocol =>
                          recs[j].index < recs[k].index

C5_Witness ==
    /\ Len(details) = 1
    /\ Len(decrypted.sapling) >= 2
    /\ Len(decrypted.orchard) >= 1
    /\ Len(details[1].outputs) = 3

\* C9: no addition makes an accumulator smaller, and an addition whose exact
\* result exceeds the accumulator's maximum leaves that maximum.
C9_SaturatingMonotonic ==
    [][ /\ incoming_zats' >= incoming_zats
        /\ change_zats' >= change_zats
        /\ outgoing_zats' >= outgoing_zats
        /\ (pc' \in {"sapling", "orchard", "totals"} /\ Len(outputs') > Len(outputs)) =>
              LET out == AllDecrypted[Len(outputs')] IN
                 /\ (out.transfer_type = "Incoming"
                        /\ incoming_zats + out.note_value > U64_MAX)
                       => incoming_zats' = U64_MAX
                 /\ (out.transfer_type = "WalletInternal"
                        /\ change_zats + out.note_value > U64_MAX)
                       => change_zats' = U64_MAX
                 /\ (out.transfer_type = "Outgoing"
                        /\ outgoing_zats + out.note_value > U64_MAX)
                       => outgoing_zats' = U64_MAX ]_vars

\* an accumulator that saturated
C9_Witness ==
    /\ pc \in {"sapling", "orchard", "totals"}
    /\ SumOf(Consumed, "Incoming") > U64_MAX
    /\ incoming_zats = U64_MAX

\* C10: every record of a returned report has a non-negative amount equal to
\* the decrypted value, and an output above the signed maximum makes
\* build_transaction_details fail without a report.
C10_RecordAmountsExact ==
    /\ Len(details) = 1 =>
          \A k \in 1..Len(details[1].outputs) :
             /\ details[1].outputs[k].amount_zats >= 0
             /\ k <= Len(AllDecrypted)
             /\ details[1].outputs[k].amount_zats = AllDecrypted[k].note_value
    /\ (Returned /\ \E k \in 1..Len(AllDecrypted) :
                        AllDecrypted[k].note_value > I64_MAX) =>
          /\ Len(details) = 0
          /\ pc = "error"

\* a wrapped record was pushed for an Outgoing output, and no report came back
C10_Witness ==
    /\ pc = "error"
    /\ Len(details) = 0
    /\ \E k \in 1..Len(outputs) :
          /\ outputs[k].amount_zats < 0
          /\ outputs[k].transfer_type = "Outgoing"


---------------------------------------------------------------------------

\* C6: the shortened form of a 64-character hex id is its first 16 characters,
\* "..." and its last 16 characters; a run on an id shorter than 32 characters
\* ends in an error and never has a report.
C6_ShortenedIdentifier ==
    /\ Len(details) = 1 =>
          LET id == args.txid
              short == details[1].transaction_hash
          IN /\ Len(id) = 64
             /\ details[1].transaction_id = id
             /\ Len(short) = 35
             /\ \A i \in 1..16 : short[i] = id[i]
             /\ \A i \in 17..19 : short[i] = "."
             /\ \A i \in 1..16 : short[19 + i] = id[48 + i]
    /\ Len(args.txid) < 32 =>
          /\ pc \in {"validate_txid", "error"}
          /\ pc = "error" => err # "none"
          /\ Len(details) = 0
          /\ stdout = "none"

\* a report for an id whose first and last 16 characters differ
C6_Witness ==
    /\ Len(details) = 1
    /\ Len(args.txid) = 64
    /\ SubSeq(args.txid, 1, 16) # SubSeq(args.txid, 49, 64)
    /\ Len(details[1].transaction_hash) = 35

\* the stages of main in program order
StageOrder ==
    <<"txid", "network", "ufvk", "raw_tx", "resolve", "parse", "decrypt", "build",
      "output">>

\* C8: every stage of main runs at most once and in program order; a failed
\* stage is the last one and leaves the run in an error state with nothing
\* printed; a report is printed only after txid validation, key decoding, the
\* non-empty check, parsing and aggregation have all succeeded.
C8_AllOrNothing ==
    /\ Len(steps) <= Len(StageOrder)
    /\ \A i \in 1..Len(steps) :
          /\ steps[i][1] = StageOrder[i]
          /\ steps[i][2] = FALSE => (i = Len(steps) /\ pc \in {"error", "panic"})
    /\ pc \in {"error", "panic"} => stdout = "none"
    /\ stdout # "none" =>
          /\ pc = "done"
          /\ Len(details) = 1
          /\ \A s \in {"txid", "network", "ufvk", "raw_tx", "parse", "build"} :
                \E i \in 1..Len(steps) : steps[i] = <<s, TRUE>>

\* the aggregation failed after every earlier stage succeeded
C8_Witness ==
    /\ pc = "error"
    /\ Len(steps) = 8
    /\ steps[8] = <<"build", FALSE>>
    /\ Len(outputs) > 0
    /\ stdout = "none"

---------------------------------------------------------------------------

\* a ZIP-302 text memo: first byte at most 0xF4 and not all padding
CarriesText(m) == m[1] < 245 /\ m # ZeroMemo

\* C7: a record's memo is the empty string whenever the output has no memo
\* (the 0xF6 marker) or its memo bytes are all zero, and a non-empty memo
\* string appears only for a memo that carries text.
C7_EmptyMemoSentinel ==
    \A k \in 1..Len(outputs) :
       /\ AllDecrypted[k].memo \in {NoMemo, ZeroMemo} => outputs[k].memo = <<>>
       /\ outputs[k].memo # <<>> => CarriesText(AllDecrypted[k].memo)

=============================================================================
